---------------------------- MODULE Spec2Model ----------------------------
(***************************************************************************)
(* A model of the textureatlas packer: the recursive PackRegion.pack, the  *)
(* TextureAtlas.pack_texture wrapper, the auto-grow loop of main and the   *)
(* two map writers (binary and JSON).                                      *)
(*                                                                         *)
(* Objects are modelled by identity.  A Rect/Frame object is an index into *)
(* the heap `rects`; a Texture object is an index into `textures`; a       *)
(* PackRegion object is a path from the atlas root (<<>>) through          *)
(* subregion_1 (1) and subregion_2 (2), and `regions` maps each existing   *)
(* region to its fields.  A region's `packable` is a Rect index or None.   *)
(***************************************************************************)
EXTENDS Integers, Sequences, FiniteSets, TLC

VARIABLES
    textures,       \* main: the parsed Texture objects, in command-line order
    rects,          \* the Rect/Frame objects: [x, y, width, height]
    sorted,         \* main: `textures` after the sort (Texture indices)
    width,          \* main: the canvas width of the current attempt
    height,         \* main: the canvas height of the current attempt
    regions,        \* the PackRegion tree of the current atlas (root = atlas)
    atlasTextures,  \* atlas.textures (Texture indices, in append order)
    i,              \* main: position of the for loop in `sorted`
    pc,             \* control state
    calls,          \* history: the pack / pack_texture calls made on the current atlas
    mapfile,        \* the map file written at the end
    rerun           \* a second run of main on the same command line (its own state)

vars == <<textures, rects, sorted, width, height, regions, atlasTextures,
          i, pc, calls, mapfile, rerun>>

---------------------------------------------------------------------------
(* Bounds of the model *)

\* PackSpec: at most this many Rect objects are created by the calls.
MaxRects == 3

\* Spec: the command line names at most this many frames in all.
MaxTotalFrames == 3

\* Spec: the growth loop is followed while the canvas is at most this wide/high.
MaxDim == 9

\* SizeBoundSpec: the command line names at most this many textures.
MaxTextures == 4

\* Frame sizes <<width, height>> of the images on the command line.
FrameSizes == {<<1, 1>>, <<2, 1>>, <<1, 2>>}

\* Texture names, as sequences of Unicode code points: "a", "bc", "e-acute".
Names == {<<97>>, <<98, 99>>, <<233>>}

\* PackSpec: sizes of the rects handed to pack (zero sides included).
RectSizes == {<<0, 1>>, <<1, 1>>, <<2, 1>>, <<1, 2>>}

\* PackSpec: sizes of the atlas.
RootSizes == {<<0, 2>>, <<1, 1>>, <<2, 2>>, <<3, 2>>, <<2, 3>>, <<3, 3>>}

---------------------------------------------------------------------------
(* Rect and PackRegion *)

None == 0

Root == <<>>

Rect(x, y, w, h) == [x |-> x, y |-> y, width |-> w, height |-> h]

perimeter(r) == 2 * (r.width + r.height)

\* A new PackRegion: no occupant (and so no subregions).
PackRegion(x, y, w, h) ==
    [x |-> x, y |-> y, width |-> w, height |-> h, packable |-> None]

subregion_1(self) == Append(self, 1)

subregion_2(self) == Append(self, 2)

\* Fits with the height test left out.
Fits_WidthOnly(region, packable) ==
    ~(packable.width > region.width)

\* "Is there room to pack this?" (the negation of the early return)
Fits(region, packable) ==
    ~((packable.width > region.width) \/ (packable.height > region.height))

\* NewSubregion1 that keeps the region's whole height.
NewSubregion1_FullHeight(region, packable) ==
    PackRegion(region.x,
               region.y + packable.height,
               packable.width,
               region.height)

\* The region created below the placed rect.
NewSubregion1(region, packable) ==
    PackRegion(region.x,
               region.y + packable.height,
               packable.width,
               region.height - packable.height)

\* NewSubregion2 that starts at the region's own x.
NewSubregion2_NoOffset(region, packable) ==
    PackRegion(region.x,
               region.y,
               region.width - packable.width,
               region.height)

\* NewSubregion2 that keeps the region's whole width.
NewSubregion2_FullWidth(region, packable) ==
    PackRegion(region.x + packable.width,
               region.y,
               region.width,
               region.height)

\* The region created to the right of the placed rect.
NewSubregion2(region, packable) ==
    PackRegion(region.x + packable.width,
               region.y,
               region.width - packable.width,
               region.height)

\* FirstSubregion that prefers subregion_1 when the perimeters are equal.
FirstSubregion_TieToLeft(h, self) ==
    IF perimeter(h.regions[subregion_1(self)]) >= perimeter(h.regions[subregion_2(self)])
    THEN subregion_1(self)
    ELSE subregion_2(self)

\* Which subregion an occupied region searches first.
FirstSubregion(h, self) ==
    IF perimeter(h.regions[subregion_1(self)]) > perimeter(h.regions[subregion_2(self)])
    THEN subregion_1(self)
    ELSE subregion_2(self)

SecondSubregion(h, self) ==
    IF FirstSubregion(h, self) = subregion_1(self)
    THEN subregion_2(self)
    ELSE subregion_1(self)

\* pack that creates no subregions when the rect fills the region exactly;
\* an occupied region without subregions has no room for anything.
RECURSIVE pack_NoEmptySubregions(_, _, _)
pack_NoEmptySubregions(h, self, packable) ==
    LET region == h.regions[self]
        rect   == h.rects[packable]
        placed == [h.rects EXCEPT ![packable].x = region.x, ![packable].y = region.y]
    IN  IF region.packable = None
        THEN IF ~Fits(region, rect)
             THEN [ret |-> FALSE, h |-> h]
             ELSE IF rect.width = region.width /\ rect.height = region.height
                  THEN [ret |-> TRUE,
                        h   |-> [regions |-> [h.regions EXCEPT ![self].packable = packable],
                                 rects   |-> placed]]
                  ELSE [ret |-> TRUE,
                        h   |-> [regions |->
                                    (subregion_1(self) :> NewSubregion1(region, rect))
                                 @@ (subregion_2(self) :> NewSubregion2(region, rect))
                                 @@ [h.regions EXCEPT ![self].packable = packable],
                                 rects |-> placed]]
        ELSE IF subregion_1(self) \notin DOMAIN h.regions
             THEN [ret |-> FALSE, h |-> h]
             ELSE LET first == pack_NoEmptySubregions(h, FirstSubregion(h, self), packable)
                  IN  IF first.ret
                      THEN first
                      ELSE pack_NoEmptySubregions(first.h, SecondSubregion(h, self), packable)

\* pack that leaves a rect which already has a position (other than the
\* origin it is created with) where it is.
RECURSIVE pack_KeepFirstPosition(_, _, _)
pack_KeepFirstPosition(h, self, packable) ==
    LET region == h.regions[self]
        rect   == h.rects[packable]
    IN  IF region.packable = None
        THEN IF ~Fits(region, rect)
             THEN [ret |-> FALSE, h |-> h]
             ELSE [ret |-> TRUE,
                   h   |-> [regions |->
                               (subregion_1(self) :> NewSubregion1(region, rect))
                            @@ (subregion_2(self) :> NewSubregion2(region, rect))
                            @@ [h.regions EXCEPT ![self].packable = packable],
                            rects |->
                               IF rect.x = 0 /\ rect.y = 0
                               THEN [h.rects EXCEPT ![packable].x = region.x,
                                                    ![packable].y = region.y]
                               ELSE h.rects]]
        ELSE LET first == pack_KeepFirstPosition(h, FirstSubregion(h, self), packable)
             IN  IF first.ret
                 THEN first
                 ELSE pack_KeepFirstPosition(first.h, SecondSubregion(h, self), packable)

\* pack that moves the rect to the region's origin before testing for room.
RECURSIVE pack_MoveBeforeTest(_, _, _)
pack_MoveBeforeTest(h, self, packable) ==
    LET region == h.regions[self]
        rect   == h.rects[packable]
        moved  == [h.rects EXCEPT ![packable].x = region.x, ![packable].y = region.y]
    IN  IF region.packable = None
        THEN IF ~Fits(region, rect)
             THEN [ret |-> FALSE, h |-> [regions |-> h.regions, rects |-> moved]]
             ELSE [ret |-> TRUE,
                   h   |-> [regions |->
                               (subregion_1(self) :> NewSubregion1(region, rect))
                            @@ (subregion_2(self) :> NewSubregion2(region, rect))
                            @@ [h.regions EXCEPT ![self].packable = packable],
                            rects |-> moved]]
        ELSE LET first == pack_MoveBeforeTest(h, FirstSubregion(h, self), packable)
             IN  IF first.ret
                 THEN first
                 ELSE pack_MoveBeforeTest(first.h, SecondSubregion(h, self), packable)

\* PackRegion.pack on the heap h = [regions, rects]: the region `self`, the
\* Rect object `packable`.  Returns the return value and the heap after the call.
RECURSIVE pack(_, _, _)
pack(h, self, packable) ==
    LET region == h.regions[self]
        rect   == h.rects[packable]
    IN  IF region.packable = None
        THEN IF ~Fits(region, rect)
             THEN [ret |-> FALSE, h |-> h]
             ELSE [ret |-> TRUE,
                   h   |-> [regions |->
                               (subregion_1(self) :> NewSubregion1(region, rect))
                            @@ (subregion_2(self) :> NewSubregion2(region, rect))
                            @@ [h.regions EXCEPT ![self].packable = packable],
                            rects |->
                               [h.rects EXCEPT ![packable].x = region.x,
                                               ![packable].y = region.y]]]
        ELSE LET first == pack(h, FirstSubregion(h, self), packable)
             IN  IF first.ret
                 THEN first
                 ELSE pack(first.h, SecondSubregion(h, self), packable)

\* get_free_regions that lists the regions under subregion_2 first.
RECURSIVE get_free_regions_RightFirst(_, _)
get_free_regions_RightFirst(rg, self) ==
    IF rg[self].packable = None
    THEN <<self>>
    ELSE get_free_regions_RightFirst(rg, subregion_2(self))
            \o get_free_regions_RightFirst(rg, subregion_1(self))

\* PackRegion.get_free_regions: the unoccupied regions under `self`, as a list.
RECURSIVE get_free_regions(_, _)
get_free_regions(rg, self) ==
    IF rg[self].packable = None
    THEN <<self>>
    ELSE get_free_regions(rg, subregion_1(self)) \o get_free_regions(rg, subregion_2(self))

---------------------------------------------------------------------------
(* Texture and TextureAtlas *)

Texture(name, frames) == [name |-> name, frames |-> frames]

\* TextureAtlas.__init__: a root region at the origin and no textures.
TextureAtlas(w, h) ==
    [regions |-> (Root :> PackRegion(0, 0, w, h)), textures |-> <<>>]

PackCall(r, ret) == [op |-> "pack", arg |-> r, ret |-> ret]

PackTextureCall(t, ret) == [op |-> "pack_texture", arg |-> t, ret |-> ret]

\* packFrames that goes on with the later frames after a frame has failed.
RECURSIVE packFrames_KeepGoing(_, _, _, _)
packFrames_KeepGoing(h, frames, k, log) ==
    IF k > Len(frames)
    THEN [ret |-> \A n \in DOMAIN log : log[n].ret, h |-> h, log |-> log]
    ELSE LET r == pack(h, Root, frames[k])
         IN  packFrames_KeepGoing(r.h, frames, k + 1, Append(log, PackCall(frames[k], r.ret)))

\* The for loop of pack_texture over frames[k..]: stops at the first frame
\* that super().pack cannot place.  `log` lists the pack calls made.
RECURSIVE packFrames(_, _, _, _)
packFrames(h, frames, k, log) ==
    IF k > Len(frames)
    THEN [ret |-> TRUE, h |-> h, log |-> log]
    ELSE LET r == pack(h, Root, frames[k])
         IN  IF ~r.ret
             THEN [ret |-> FALSE, h |-> r.h, log |-> Append(log, PackCall(frames[k], FALSE))]
             ELSE packFrames(r.h, frames, k + 1, Append(log, PackCall(frames[k], TRUE)))

\* pack_texture that falls through to `return True` when a frame fails.
pack_texture_AlwaysTrue(a, rs, txs, t) ==
    LET r == packFrames([regions |-> a.regions, rects |-> rs], txs[t].frames, 1, <<>>)
    IN  [ret      |-> TRUE,
         regions  |-> r.h.regions,
         rects    |-> r.h.rects,
         textures |-> Append(a.textures, t),
         log      |-> Append(r.log, PackTextureCall(t, TRUE))]

\* TextureAtlas.pack_texture on the atlas a = [regions, textures] with the
\* Rect heap rs: the texture index t is appended first, then its frames are packed.
pack_texture(a, rs, txs, t) ==
    LET r == packFrames([regions |-> a.regions, rects |-> rs], txs[t].frames, 1, <<>>)
    IN  [ret      |-> r.ret,
         regions  |-> r.h.regions,
         rects    |-> r.h.rects,
         textures |-> Append(a.textures, t),
         log      |-> Append(r.log, PackTextureCall(t, r.ret))]

---------------------------------------------------------------------------
(* PackSpec: any sequence of pack and pack_texture calls on one atlas *)

SeqsUpTo(S, n) == UNION {[1..k -> S] : k \in 1..n}

PackInit ==
    /\ \E sz \in RootSizes :
          /\ width = sz[1]
          /\ height = sz[2]
          /\ regions = TextureAtlas(sz[1], sz[2]).regions
    /\ textures = <<>>
    /\ rects = <<>>
    /\ sorted = <<>>
    /\ atlasTextures = <<>>
    /\ i = 0
    /\ pc = "api"
    /\ calls = <<>>
    /\ mapfile = <<>>
    /\ rerun = None

\* A caller creates a Rect and calls atlas.pack(rect) (PackRegion.pack on the root).
CallPack ==
    /\ pc = "api"
    /\ Len(rects) < MaxRects
    /\ \E sz \in RectSizes :
          LET r   == Len(rects) + 1
              res == pack([regions |-> regions,
                           rects |-> Append(rects, Rect(0, 0, sz[1], sz[2]))], Root, r)
          IN  /\ regions' = res.h.regions
              /\ rects' = res.h.rects
              /\ calls' = Append(calls, PackCall(r, res.ret))
    /\ UNCHANGED <<textures, sorted, width, height, atlasTextures, i, pc, mapfile, rerun>>

\* A caller creates a Texture of new frames and calls atlas.pack_texture(texture).
CallPackTexture ==
    /\ pc = "api"
    /\ Len(rects) < MaxRects
    /\ \E szs \in SeqsUpTo(RectSizes, MaxRects - Len(rects)) :
          LET n   == Len(rects)
              rs  == rects \o [k \in 1..Len(szs) |-> Rect(0, 0, szs[k][1], szs[k][2])]
              txs == Append(textures, Texture(<<97>>, [k \in 1..Len(szs) |-> n + k]))
              res == pack_texture([regions |-> regions, textures |-> atlasTextures],
                                  rs, txs, Len(txs))
          IN  /\ textures' = txs
              /\ regions' = res.regions
              /\ rects' = res.rects
              /\ atlasTextures' = res.textures
              /\ calls' = calls \o res.log
    /\ UNCHANGED <<sorted, width, height, i, pc, mapfile, rerun>>

PackNext == CallPack \/ CallPackTexture

PackSpec == PackInit /\ [][PackNext]_vars

---------------------------------------------------------------------------
(* The map writers *)

hdr_fmt_len == 36

tex_fmt_len == 12

frm_fmt_len == 16

\* struct.pack of one "I" field: four bytes, least significant first.
U32(n) == <<n % 256, (n \div 256) % 256, (n \div 65536) % 256, (n \div 16777216) % 256>>

\* str.encode("utf-8") of one code point (below 0x10000).
Utf8Char(c) ==
    IF c < 128 THEN <<c>>
    ELSE IF c < 2048 THEN <<192 + (c \div 64), 128 + (c % 64)>>
    ELSE <<224 + (c \div 4096), 128 + ((c \div 64) % 64), 128 + (c % 64)>>

RECURSIVE Utf8(_)
Utf8(name) == IF name = <<>> THEN <<>> ELSE Utf8Char(Head(name)) \o Utf8(Tail(name))

RECURSIVE Sum(_)
Sum(s) == IF s = <<>> THEN 0 ELSE Head(s) + Sum(Tail(s))

RECURSIVE Concat(_)
Concat(ss) == IF ss = <<>> THEN <<>> ELSE Head(ss) \o Concat(Tail(ss))

\* The texture section: one record per texture, the running offsets advancing
\* by len(name) + 1 and by the size of the texture's frame records.
RECURSIVE TextureSection(_, _, _, _)
TextureSection(txs, ts, str_offset, frm_offset) ==
    IF ts = <<>> THEN <<>>
    ELSE LET t == txs[Head(ts)]
         IN  U32(str_offset) \o U32(Len(t.frames)) \o U32(frm_offset)
             \o TextureSection(txs, Tail(ts),
                               str_offset + (Len(t.name) + 1),
                               frm_offset + Len(t.frames) * frm_fmt_len)

StringSection(txs, ts) ==
    Concat([k \in DOMAIN ts |-> Utf8(txs[ts[k]].name) \o <<0>>])

FrameRecord(f) == U32(f.x) \o U32(f.y) \o U32(f.width) \o U32(f.height)

FrameSection(txs, rs, ts) ==
    Concat([k \in DOMAIN ts |->
              Concat([j \in DOMAIN txs[ts[k]].frames |-> FrameRecord(rs[txs[ts[k]].frames[j]])])])

\* BinaryTextureAtlasMap.write for the atlas a = [width, height, textures].
\* `bytes` is the file; `tell` is the file position after each of the four
\* groups of writes (header, texture section, string section, frame section).
BinaryWrite(a, txs, rs) ==
    LET hdr_section_len == hdr_fmt_len + 4
        tex_section_off == hdr_section_len
        tex_section_len == Len(a.textures) * tex_fmt_len
        str_section_off == tex_section_off + tex_section_len
        str_section_len == Sum([k \in DOMAIN a.textures |-> Len(txs[a.textures[k]].name) + 1])
        frm_section_off == str_section_off + str_section_len
        frm_section_len == Sum([k \in DOMAIN a.textures |-> Len(txs[a.textures[k]].frames)])
                              * frm_fmt_len
        header == <<84, 69, 88, 65>>
                  \o U32(a.width) \o U32(a.height) \o U32(Len(a.textures))
                  \o U32(tex_section_off) \o U32(tex_section_len)
                  \o U32(str_section_off) \o U32(str_section_len)
                  \o U32(frm_section_off) \o U32(frm_section_len)
        texs == TextureSection(txs, a.textures, 0, 0)
        strs == StringSection(txs, a.textures)
        frms == FrameSection(txs, rs, a.textures)
    IN  [format |-> "binary",
         bytes  |-> header \o texs \o strs \o frms,
         tell   |-> <<Len(header),
                      Len(header) + Len(texs),
                      Len(header) + Len(texs) + Len(strs),
                      Len(header) + Len(texs) + Len(strs) + Len(frms)>>]

\* FlipY with only one of the two "- 1" corrections.
FlipY_OffByOne(atlas_height, frame) == (atlas_height - 1) - frame.y - frame.height

\* The y coordinate the JSON map gives a frame.
FlipY(atlas_height, frame) == (atlas_height - 1) - frame.y - (frame.height - 1)

JsonFrames(atlas_height, rs, frames) ==
    [j \in DOMAIN frames |->
        <<rs[frames[j]].x, FlipY(atlas_height, rs[frames[j]]),
          rs[frames[j]].width, rs[frames[j]].height>>]

\* DictSet that keeps the value a key already has.
DictSet_KeepFirst(d, key, value) ==
    IF \E k \in DOMAIN d : d[k][1] = key
    THEN d
    ELSE Append(d, <<key, value>>)

\* Storing a key in a dict (a list of <<key, value>> in insertion order): an
\* existing key keeps its place and gets the new value.
DictSet(d, key, value) ==
    IF \E k \in DOMAIN d : d[k][1] = key
    THEN [k \in DOMAIN d |-> IF d[k][1] = key THEN <<key, value>> ELSE d[k]]
    ELSE Append(d, <<key, value>>)

\* The dict comprehension of JsonTextureAtlasMap.write over textures ts[k..].
RECURSIVE JsonDict(_, _, _, _, _)
JsonDict(d, atlas_height, txs, rs, ts) ==
    IF ts = <<>> THEN d
    ELSE JsonDict(DictSet(d, txs[Head(ts)].name,
                          JsonFrames(atlas_height, rs, txs[Head(ts)].frames)),
                  atlas_height, txs, rs, Tail(ts))

JsonWrite(a, txs, rs) ==
    [format |-> "json", dict |-> JsonDict(<<>>, a.height, txs, rs, a.textures)]

---------------------------------------------------------------------------
(* Spec: main, from the parsed command line to the written map *)

\* The k-th smallest element of a set of numbers.
KthSmallest(S, k) == CHOOSE x \in S : Cardinality({y \in S : y <= x}) = k

\* The Texture objects built from the frame sizes fs, cut into textures after
\* the positions in cuts, with the names nms; frame j is Rect object j.
ParsedTextures(fs, cuts, nms) ==
    LET ends == cuts \cup {Len(fs)}
    IN  [t \in 1..Cardinality(ends) |->
            LET first == IF t = 1 THEN 1 ELSE KthSmallest(ends, t - 1) + 1
                last  == KthSmallest(ends, t)
            IN  Texture(nms[t], [j \in 1..(last - first + 1) |-> first + j - 1])]

\* Frame.__init__: position (0, 0) and the image's size.
Frame(sz) == Rect(0, 0, sz[1], sz[2])

\* The state of a run of main after the command line is parsed: the Frame
\* objects rs, no atlas yet.
Parsed(rs) ==
    [rects |-> rs, sorted |-> <<>>, width |-> 0, height |-> 0, regions |-> <<>>,
     atlasTextures |-> <<>>, i |-> 0, pc |-> "parsed", mapfile |-> <<>>]

Init ==
    /\ \E fs \in SeqsUpTo(FrameSizes, MaxTotalFrames) :
       \E cuts \in SUBSET (1..(Len(fs) - 1)) :
       \E nms \in [1..(Cardinality(cuts) + 1) -> Names] :
          /\ rects = [j \in DOMAIN fs |-> Frame(fs[j])]
          /\ textures = ParsedTextures(fs, cuts, nms)
    /\ sorted = <<>>
    /\ width = 0
    /\ height = 0
    /\ regions = <<>>
    /\ atlasTextures = <<>>
    /\ i = 0
    /\ pc = "parsed"
    /\ calls = <<>>
    /\ mapfile = <<>>
    /\ rerun = Parsed(rects)

\* The sort key of main: the perimeter of the texture's first frame.
SortKey(txs, rs, t) == perimeter(rs[txs[t].frames[1]])

\* InsertPosition of a sort that puts t before the elements of equal key.
InsertPosition_Unstable(txs, rs, s, t) ==
    Cardinality({k \in DOMAIN s : SortKey(txs, rs, s[k]) > SortKey(txs, rs, t)}) + 1

\* Where a stable sort in non-increasing key order puts t in the sorted list s:
\* after every element whose key is at least t's.
InsertPosition(txs, rs, s, t) ==
    Cardinality({k \in DOMAIN s : SortKey(txs, rs, s[k]) >= SortKey(txs, rs, t)}) + 1

InsertAt(s, pos, e) == SubSeq(s, 1, pos - 1) \o <<e>> \o SubSeq(s, pos, Len(s))

\* sorted(textures, key=..., reverse=True) of the textures 1..n, taken in order.
RECURSIVE SortedByPerimeter(_, _, _)
SortedByPerimeter(txs, rs, n) ==
    IF n = 0 THEN <<>>
    ELSE LET s == SortedByPerimeter(txs, rs, n - 1)
         IN  InsertAt(s, InsertPosition(txs, rs, s, n), n)

\* main: the sort, the initial canvas size and the first atlas.
SortTextures ==
    /\ pc = "parsed"
    /\ LET s == SortedByPerimeter(textures, rects, Len(textures))
           largest_frame == rects[textures[s[1]].frames[1]]
       IN  /\ sorted' = s
           /\ width' = largest_frame.width
           /\ height' = largest_frame.height
           /\ regions' = TextureAtlas(largest_frame.width, largest_frame.height).regions
           /\ atlasTextures' = TextureAtlas(largest_frame.width, largest_frame.height).textures
    /\ i' = 1
    /\ pc' = "loop"
    /\ UNCHANGED <<textures, rects, calls, mapfile, rerun>>

\* main: one iteration of the for loop whose pack_texture call succeeds or
\* fails; after the last texture succeeds the while loop exits.
PackTexture ==
    /\ pc = "loop"
    /\ LET res == pack_texture([regions |-> regions, textures |-> atlasTextures],
                               rects, textures, sorted[i])
       IN  /\ regions' = res.regions
           /\ rects' = res.rects
           /\ atlasTextures' = res.textures
           /\ calls' = calls \o res.log
           /\ pc' = IF ~res.ret THEN "failed"
                    ELSE IF i = Len(sorted) THEN "exited" ELSE "loop"
           /\ i' = IF res.ret /\ i < Len(sorted) THEN i + 1 ELSE i
    /\ UNCHANGED <<textures, sorted, width, height, mapfile, rerun>>

\* max(list, key=perimeter): the first region of the list with the largest perimeter.
MaxByPerimeter(rg, free) ==
    free[CHOOSE k \in DOMAIN free :
            /\ \A j \in DOMAIN free : perimeter(rg[free[j]]) <= perimeter(rg[free[k]])
            /\ \A j \in 1..(k - 1) : perimeter(rg[free[j]]) < perimeter(rg[free[k]])]

\* GrownSize that makes the canvas both wider and higher.
GrownSize_Both(rg, rs, txs, t, w, h) ==
    <<w + rs[txs[t].frames[1]].width, h + rs[txs[t].frames[1]].height>>

\* The canvas size main chooses after pack_texture failed on texture t.
GrownSize(rg, rs, txs, t, w, h) ==
    LET biggest_free_space == rg[MaxByPerimeter(rg, get_free_regions(rg, Root))]
        frame0 == rs[txs[t].frames[1]]
    IN  IF biggest_free_space.width < frame0.width
        THEN <<w + frame0.width, h>>
        ELSE <<w, h + frame0.height>>

\* main: the atlas is made larger, a new atlas replaces it, the for loop restarts.
Grow ==
    /\ pc = "failed"
    /\ LET sz == GrownSize(regions, rects, textures, sorted[i], width, height)
       IN  /\ sz[1] <= MaxDim
           /\ sz[2] <= MaxDim
           /\ width' = sz[1]
           /\ height' = sz[2]
           /\ regions' = TextureAtlas(sz[1], sz[2]).regions
           /\ atlasTextures' = TextureAtlas(sz[1], sz[2]).textures
    /\ i' = 1
    /\ pc' = "loop"
    /\ calls' = <<>>
    /\ UNCHANGED <<textures, rects, sorted, mapfile, rerun>>

\* The atlas as the map writers read it.
Atlas == [width |-> regions[Root].width, height |-> regions[Root].height,
          textures |-> atlasTextures]

\* main, --map-format json
WriteJson ==
    /\ pc = "exited"
    /\ mapfile' = JsonWrite(Atlas, textures, rects)
    /\ pc' = "done"
    /\ UNCHANGED <<textures, rects, sorted, width, height, regions, atlasTextures, i, calls, rerun>>

\* main, --map-format binary
WriteBinary ==
    /\ pc = "exited"
    /\ mapfile' = BinaryWrite(Atlas, textures, rects)
    /\ pc' = "done"
    /\ UNCHANGED <<textures, rects, sorted, width, height, regions, atlasTextures, i, calls, rerun>>

Next == SortTextures \/ PackTexture \/ Grow \/ WriteJson \/ WriteBinary

Spec == Init /\ [][Next]_vars

\* The command lines of at most two frames whose textures are all named "a".
FairInit ==
    /\ Init
    /\ Len(rects) <= 2
    /\ \A t \in DOMAIN textures : textures[t].name = <<97>>

\* main runs to completion on such a command line: no step that can be taken
\* is postponed for ever.
FairSpec == FairInit /\ [][Next]_vars /\ WF_vars(Next)

---------------------------------------------------------------------------
(* SizeBoundSpec: main on textures of one frame each, tall, square or wide *)

TallSquareWide == {<<1, 3>>, <<2, 2>>, <<3, 1>>}

\* The parsed command line: up to MaxTextures textures of one frame, named "a".
SizeBoundInit ==
    /\ \E fs \in SeqsUpTo(TallSquareWide, MaxTextures) :
          /\ rects = [j \in DOMAIN fs |-> Frame(fs[j])]
          /\ textures = ParsedTextures(fs, 1..(Len(fs) - 1), [t \in DOMAIN fs |-> <<97>>])
          /\ rerun = Parsed([j \in DOMAIN fs |-> Frame(fs[j])])
    /\ sorted = <<>>
    /\ width = 0
    /\ height = 0
    /\ regions = <<>>
    /\ atlasTextures = <<>>
    /\ i = 0
    /\ pc = "parsed"
    /\ calls = <<>>
    /\ mapfile = <<>>

SizeBoundSpec == SizeBoundInit /\ [][Next]_vars

---------------------------------------------------------------------------
(* TwoRunSpec: main is run again on the same command line *)

\* FreeSpaceChoices that may return any of the free regions of largest perimeter.
FreeSpaceChoices_AnyLargest(rg, free) ==
    {free[k] : k \in {n \in DOMAIN free :
                         \A j \in DOMAIN free : perimeter(rg[free[j]]) <= perimeter(rg[free[n]])}}

\* The regions max(atlas.get_free_regions(), key=perimeter) may return: max
\* returns the first of the items with the largest key.
FreeSpaceChoices(rg, free) == {MaxByPerimeter(rg, free)}

\* The states one step of main (the sort, one pack_texture call, one growth,
\* the writing of the map in format fmt) may lead to from the run state s.
Steps(s, txs, fmt) ==
    CASE s.pc = "parsed" ->
            LET srt == SortedByPerimeter(txs, s.rects, Len(txs))
                largest_frame == s.rects[txs[srt[1]].frames[1]]
                atlas == TextureAtlas(largest_frame.width, largest_frame.height)
            IN  {[s EXCEPT !.sorted = srt,
                           !.width = largest_frame.width,
                           !.height = largest_frame.height,
                           !.regions = atlas.regions,
                           !.atlasTextures = atlas.textures,
                           !.i = 1,
                           !.pc = "loop"]}
      [] s.pc = "loop" ->
            LET res == pack_texture([regions |-> s.regions, textures |-> s.atlasTextures],
                                    s.rects, txs, s.sorted[s.i])
            IN  {[s EXCEPT !.regions = res.regions,
                           !.rects = res.rects,
                           !.atlasTextures = res.textures,
                           !.pc = IF ~res.ret THEN "failed"
                                  ELSE IF s.i = Len(s.sorted) THEN "exited" ELSE "loop",
                           !.i = IF res.ret /\ s.i < Len(s.sorted) THEN s.i + 1 ELSE s.i]}
      [] s.pc = "failed" ->
            LET frame0 == s.rects[txs[s.sorted[s.i]].frames[1]]
                grown  == {IF s.regions[R].width < frame0.width
                           THEN <<s.width + frame0.width, s.height>>
                           ELSE <<s.width, s.height + frame0.height>> :
                              R \in FreeSpaceChoices(s.regions,
                                                     get_free_regions(s.regions, Root))}
            IN  {[s EXCEPT !.width = sz[1],
                           !.height = sz[2],
                           !.regions = TextureAtlas(sz[1], sz[2]).regions,
                           !.atlasTextures = TextureAtlas(sz[1], sz[2]).textures,
                           !.i = 1,
                           !.pc = "loop"] :
                    sz \in {g \in grown : g[1] <= MaxDim /\ g[2] <= MaxDim}}
      [] s.pc = "exited" ->
            LET a == [width |-> s.regions[Root].width, height |-> s.regions[Root].height,
                      textures |-> s.atlasTextures]
            IN  {[s EXCEPT !.mapfile = IF fmt = "json" THEN JsonWrite(a, txs, s.rects)
                                       ELSE BinaryWrite(a, txs, s.rects),
                           !.pc = "done"]}
      [] OTHER -> {}

\* main is run a second time, with the same arguments, once the first run is
\* over: one step of the second run.
Rerun ==
    /\ pc = "done"
    /\ rerun' \in Steps(rerun, textures, mapfile.format)
    /\ UNCHANGED <<textures, rects, sorted, width, height, regions, atlasTextures,
                   i, pc, calls, mapfile>>

TwoRunNext == Next \/ Rerun

TwoRunSpec == Init /\ [][TwoRunNext]_vars

---------------------------------------------------------------------------
(* FixedSpec: the fixed-size variant (src/textureatlas.py, option --size) *)

\* The values of --size.
AtlasSizes == {1, 2, 3}

\* packOrRaise that goes on to the next frame when a frame cannot be placed.
RECURSIVE packOrRaise_Swallow(_, _, _, _)
packOrRaise_Swallow(h, frames, k, log) ==
    IF k > Len(frames)
    THEN [raised |-> FALSE, h |-> h, log |-> log]
    ELSE LET r == pack(h, Root, frames[k])
         IN  packOrRaise_Swallow(r.h, frames, k + 1, Append(log, PackCall(frames[k], r.ret)))

\* The for loop of TextureAtlas.pack over frames[k..]: raises at the first
\* frame that super().pack cannot place.  `log` lists the pack calls made.
RECURSIVE packOrRaise(_, _, _, _)
packOrRaise(h, frames, k, log) ==
    IF k > Len(frames)
    THEN [raised |-> FALSE, h |-> h, log |-> log]
    ELSE LET r == pack(h, Root, frames[k])
         IN  IF ~r.ret
             THEN [raised |-> TRUE, h |-> r.h, log |-> Append(log, PackCall(frames[k], FALSE))]
             ELSE packOrRaise(r.h, frames, k + 1, Append(log, PackCall(frames[k], TRUE)))

\* TextureAtlas.pack of the fixed-size variant: the texture is appended, then
\* its frames are packed; an exception leaves the call where a frame failed.
TextureAtlas_pack(a, rs, txs, t) ==
    LET r == packOrRaise([regions |-> a.regions, rects |-> rs], txs[t].frames, 1, <<>>)
    IN  [raised   |-> r.raised,
         regions  |-> r.h.regions,
         rects    |-> r.h.rects,
         textures |-> Append(a.textures, t),
         log      |-> r.log]

\* The parsed command line: the textures (all named "a") and --size.
FixedInit ==
    /\ \E fs \in SeqsUpTo(FrameSizes, MaxTotalFrames) :
       \E cuts \in SUBSET (1..(Len(fs) - 1)) :
          /\ rects = [j \in DOMAIN fs |-> Frame(fs[j])]
          /\ textures = ParsedTextures(fs, cuts, [t \in 1..(Cardinality(cuts) + 1) |-> <<97>>])
    /\ \E size \in AtlasSizes :
          /\ width = size
          /\ height = size
    /\ sorted = <<>>
    /\ regions = <<>>
    /\ atlasTextures = <<>>
    /\ i = 0
    /\ pc = "fixed_parsed"
    /\ calls = <<>>
    /\ mapfile = <<>>
    /\ rerun = None

\* main: the sort and the atlas of size x size.
FixedSort ==
    /\ pc = "fixed_parsed"
    /\ sorted' = SortedByPerimeter(textures, rects, Len(textures))
    /\ regions' = TextureAtlas(width, height).regions
    /\ atlasTextures' = TextureAtlas(width, height).textures
    /\ i' = 1
    /\ pc' = "fixed_loop"
    /\ UNCHANGED <<textures, rects, width, height, calls, mapfile, rerun>>

\* main: one iteration of `for texture in textures: atlas.pack(texture)`; an
\* exception ends the program.
FixedPack ==
    /\ pc = "fixed_loop"
    /\ LET res == TextureAtlas_pack([regions |-> regions, textures |-> atlasTextures],
                                    rects, textures, sorted[i])
       IN  /\ regions' = res.regions
           /\ rects' = res.rects
           /\ atlasTextures' = res.textures
           /\ calls' = calls \o res.log
           /\ pc' = IF res.raised THEN "raised"
                    ELSE IF i = Len(sorted) THEN "exited" ELSE "fixed_loop"
           /\ i' = IF ~res.raised /\ i < Len(sorted) THEN i + 1 ELSE i
    /\ UNCHANGED <<textures, sorted, width, height, mapfile, rerun>>

FixedNext == FixedSort \/ FixedPack

FixedSpec == FixedInit /\ [][FixedNext]_vars

---------------------------------------------------------------------------
(* Geometry used to state the properties *)

Range(s) == {s[k] : k \in DOMAIN s}

\* The unit cells of [x, x+width) x [y, y+height); empty for a zero side.
Cells(r) ==
    {<<cx, cy>> : cx \in r.x .. (r.x + r.width - 1), cy \in r.y .. (r.y + r.height - 1)}

Area(r) == r.width * r.height

Positive(r) == r.width > 0 /\ r.height > 0

RECURSIVE SumOver(_, _)
SumOver(S, f) ==
    IF S = {} THEN 0
    ELSE LET e == CHOOSE e \in S : TRUE IN f[e] + SumOver(S \ {e}, f)

\* The Rect objects whose pack call on the current atlas returned true.
PackedRects == {calls[k].arg : k \in {n \in DOMAIN calls : calls[n].op = "pack" /\ calls[n].ret}}

\* The Rect objects that occupy a region of the tree.
Occupants == {regions[p].packable : p \in DOMAIN regions} \ {None}

\* What a region contributes to the tiling: its occupant rect, its own rect if free.
Tile(p) == IF regions[p].packable = None THEN regions[p] ELSE rects[regions[p].packable]

\* Every frame of texture t occupies a region of the tree, at that region's origin.
Placed(r) ==
    \E p \in DOMAIN regions :
        regions[p].packable = r /\ rects[r].x = regions[p].x /\ rects[r].y = regions[p].y

AllPlaced(t) == \A r \in Range(textures[t].frames) : Placed(r)

PackTextureCalls == SelectSeq(calls, LAMBDA c : c.op = "pack_texture")

---------------------------------------------------------------------------
(* Claims settled under PackSpec *)

\* C2 (No-overlap): any two distinct rects whose pack call returned true, each of
\* positive width and height, cover disjoint sets of cells.
C2_NoOverlap ==
    \A a, b \in PackedRects :
        (a # b /\ Positive(rects[a]) /\ Positive(rects[b]))
            => Cells(rects[a]) \cap Cells(rects[b]) = {}

\* Three rects of positive size packed side by side and below one another.
C2_Witness ==
    /\ Cardinality({r \in PackedRects : Positive(rects[r])}) = 3
    /\ \E a, b \in PackedRects : rects[a].x > 0 /\ rects[b].y > 0

\* C3 (Fit): every rect whose pack call returned true lies inside the atlas.
C3_Fit ==
    \A r \in PackedRects :
        /\ rects[r].x >= 0
        /\ rects[r].y >= 0
        /\ rects[r].x + rects[r].width <= regions[Root].width
        /\ rects[r].y + rects[r].height <= regions[Root].height

\* A rect placed away from the origin that ends exactly at the atlas's right
\* edge, and one that ends exactly at its bottom edge.
C3_Witness ==
    /\ \E r \in PackedRects :
          rects[r].x > 0 /\ rects[r].x + rects[r].width = regions[Root].width
    /\ \E r \in PackedRects :
          rects[r].y > 0 /\ rects[r].y + rects[r].height = regions[Root].height

\* C4 (Tiling invariant): after any sequence of pack calls, successful or not,
\* the occupants and the free leaves have areas summing to the root's area, no
\* two of them share a cell, and none has a negative side.
C4_Tiling ==
    /\ SumOver(DOMAIN regions, [p \in DOMAIN regions |-> Area(Tile(p))])
          = regions[Root].width * regions[Root].height
    /\ \A p, q \in DOMAIN regions :
          p # q => Cells(Tile(p)) \cap Cells(Tile(q)) = {}
    /\ \A p \in DOMAIN regions : Tile(p).width >= 0 /\ Tile(p).height >= 0

\* A tree with two occupied regions, a free leaf of zero area, a free leaf of
\* positive area, after a pack call that failed.
C4_Witness ==
    /\ Cardinality(Occupants) >= 2
    /\ \E k \in DOMAIN calls : calls[k].op = "pack" /\ ~calls[k].ret
    /\ \E p \in DOMAIN regions : regions[p].packable = None /\ Area(regions[p]) = 0
    /\ \E p \in DOMAIN regions : regions[p].packable = None /\ Area(regions[p]) > 0

\* C8 as stated (Only fully packed textures are retained): every texture in
\* atlas.textures has all of its frames placed, and a texture for which
\* pack_texture returned false is not in atlas.textures.
C8_OnlyFullyPackedRetained ==
    /\ \A t \in Range(atlasTextures) : AllPlaced(t)
    /\ \A k \in DOMAIN calls :
          (calls[k].op = "pack_texture" /\ ~calls[k].ret)
              => calls[k].arg \notin Range(atlasTextures)

\* C8 amended: atlas.textures lists every texture passed to pack_texture, in
\* call order, whatever the call returned; a texture whose call returned true
\* has all of its frames placed; a texture whose call returned false stays in
\* atlas.textures.
C8_RetainedWhateverReturned ==
    /\ atlasTextures = [k \in DOMAIN PackTextureCalls |-> PackTextureCalls[k].arg]
    /\ \A k \in DOMAIN PackTextureCalls :
          IF PackTextureCalls[k].ret
          THEN AllPlaced(PackTextureCalls[k].arg)
          ELSE PackTextureCalls[k].arg \in Range(atlasTextures)

\* A texture whose second frame failed after its first was placed is still in
\* atlas.textures, and a texture packed after it succeeded.
C8_Witness ==
    /\ Len(PackTextureCalls) = 2
    /\ ~PackTextureCalls[1].ret
    /\ PackTextureCalls[2].ret
    /\ Len(textures[PackTextureCalls[1].arg].frames) = 2
    /\ Placed(textures[PackTextureCalls[1].arg].frames[1])
    /\ ~Placed(textures[PackTextureCalls[1].arg].frames[2])
    /\ atlasTextures = <<PackTextureCalls[1].arg, PackTextureCalls[2].arg>>

\* The heap after a caller creates a Rect of size sz: the object NewRect.
WithNewRect(sz) ==
    [regions |-> regions, rects |-> Append(rects, Rect(0, 0, sz[1], sz[2]))]

NewRect == Len(rects) + 1

FreeLeaves == {p \in DOMAIN regions : regions[p].packable = None}

\* C14 (Placement step): pack on a free region R with a rect no wider and no
\* higher than R returns true, puts the rect at (R.x, R.y), makes it R's
\* occupant and creates exactly two free children: left = (R.x, R.y + h, w,
\* R.height - h) and right = (R.x + w, R.y, R.width - w, R.height), whose
\* areas with the rect's sum to R's area.
C14_PlacementStep ==
    \A p \in FreeLeaves : \A sz \in RectSizes :
        (sz[1] <= regions[p].width /\ sz[2] <= regions[p].height) =>
            LET R     == regions[p]
                res   == pack(WithNewRect(sz), p, NewRect)
                left  == res.h.regions[subregion_1(p)]
                right == res.h.regions[subregion_2(p)]
            IN  /\ res.ret
                /\ res.h.rects = Append(rects, Rect(R.x, R.y, sz[1], sz[2]))
                /\ DOMAIN res.h.regions
                      = DOMAIN regions \cup {subregion_1(p), subregion_2(p)}
                /\ \A q \in DOMAIN regions \ {p} : res.h.regions[q] = regions[q]
                /\ res.h.regions[p] = [R EXCEPT !.packable = NewRect]
                /\ left = [x |-> R.x, y |-> R.y + sz[2],
                           width |-> sz[1], height |-> R.height - sz[2],
                           packable |-> None]
                /\ right = [x |-> R.x + sz[1], y |-> R.y,
                            width |-> R.width - sz[1], height |-> R.height,
                            packable |-> None]
                /\ sz[1] * sz[2] + Area(left) + Area(right) = Area(R)

\* After two placements, the second in a child of the root, a free leaf away
\* from both axes has room for a 1x1 rect and for nothing wider or higher.
C14_Witness ==
    /\ Cardinality(Occupants) = 2
    /\ \E p \in FreeLeaves :
          /\ Len(p) = 2
          /\ regions[p].x > 0
          /\ regions[p].y > 0
          /\ regions[p].width = 1
          /\ regions[p].height = 1

\* The regions of the subtree of p (p included).
Subtree(p) == {q \in DOMAIN regions : Len(q) >= Len(p) /\ SubSeq(q, 1, Len(p)) = p}

\* C15 (A failed pack changes nothing): when pack on any region, free or
\* occupied, returns false, every region and every rect (the one passed, new
\* or packed before, included) is as before the call; when it returns true for
\* a new rect, exactly one free leaf of the region's subtree becomes occupied,
\* by that rect, and no region or rect that existed before is changed otherwise.
C15_FailedPackChangesNothing ==
    \A p \in DOMAIN regions :
        /\ \A r \in DOMAIN rects :
              LET h   == [regions |-> regions, rects |-> rects]
                  res == pack(h, p, r)
              IN  ~res.ret => res.h = h
        /\ \A sz \in RectSizes :
              LET h   == WithNewRect(sz)
                  res == pack(h, p, NewRect)
              IN  IF ~res.ret
                  THEN res.h = h
                  ELSE /\ \E q \in Subtree(p) \cap FreeLeaves :
                            /\ res.h.regions[q] = [regions[q] EXCEPT !.packable = NewRect]
                            /\ DOMAIN res.h.regions
                                  = DOMAIN regions \cup {subregion_1(q), subregion_2(q)}
                            /\ \A o \in DOMAIN regions \ {q} : res.h.regions[o] = regions[o]
                            /\ res.h.regions[subregion_1(q)].packable = None
                            /\ res.h.regions[subregion_2(q)].packable = None
                       /\ \A r \in DOMAIN rects : res.h.rects[r] = rects[r]
                       /\ res.h.rects[NewRect].width = sz[1]
                       /\ res.h.rects[NewRect].height = sz[2]

\* A pack call on the occupied root failed after both subtrees were searched,
\* free leaves away from the origin among them; two rects stay placed.
C15_Witness ==
    /\ Cardinality(Occupants) = 2
    /\ calls[Len(calls)] = PackCall(Len(rects), FALSE)
    /\ rects[Len(rects)] = Rect(0, 0, 1, 2)
    /\ \E p \in FreeLeaves : regions[p].x > 0 /\ regions[p].height >= 2
    /\ \E p \in FreeLeaves : regions[p].y > 0 /\ regions[p].width >= 1

\* The free leaves under p in the order C16 describes: under an occupied
\* region, those of the child of strictly larger perimeter first, those of
\* the right child (subregion_2) first when the perimeters are equal.
RECURSIVE SearchOrder(_)
SearchOrder(p) ==
    IF regions[p].packable = None
    THEN <<p>>
    ELSE IF perimeter(regions[Append(p, 1)]) > perimeter(regions[Append(p, 2)])
         THEN SearchOrder(Append(p, 1)) \o SearchOrder(Append(p, 2))
         ELSE SearchOrder(Append(p, 2)) \o SearchOrder(Append(p, 1))

\* C16 (Search order in an occupied region): pack on an occupied region
\* returns true iff some free leaf of its subtree has room for the rect; the
\* rect then occupies exactly one leaf, the first one with room in the search
\* order (larger-perimeter child first, right child on equal perimeters), and
\* the result is that of the call on the first child if it returned true,
\* otherwise that of the call on the other child.
C16_SearchOrder ==
    \A p \in DOMAIN regions \ FreeLeaves : \A sz \in RectSizes :
        LET h        == WithNewRect(sz)
            res      == pack(h, p, NewRect)
            order    == SearchOrder(p)
            room     == {k \in DOMAIN order :
                            sz[1] <= regions[order[k]].width
                               /\ sz[2] <= regions[order[k]].height}
            larger   == IF perimeter(regions[Append(p, 1)]) > perimeter(regions[Append(p, 2)])
                        THEN Append(p, 1) ELSE Append(p, 2)
            other    == IF larger = Append(p, 1) THEN Append(p, 2) ELSE Append(p, 1)
            occupied == {q \in DOMAIN res.h.regions : res.h.regions[q].packable = NewRect}
        IN  /\ res.ret <=> room # {}
            /\ res.ret <=> (pack(h, larger, NewRect).ret \/ pack(h, other, NewRect).ret)
            /\ res = IF pack(h, larger, NewRect).ret
                     THEN pack(h, larger, NewRect)
                     ELSE pack(h, other, NewRect)
            /\ IF res.ret
               THEN occupied = {order[CHOOSE k \in room : \A j \in room : k <= j]}
               ELSE occupied = {}

\* The root is occupied and its two children are free, of equal perimeter and
\* of different shapes, and each has room for a 1x1 rect.
C16_Witness ==
    /\ regions[Root].packable # None
    /\ FreeLeaves = {<<1>>, <<2>>}
    /\ perimeter(regions[<<1>>]) = perimeter(regions[<<2>>])
    /\ regions[<<1>>].width # regions[<<2>>].width
    /\ Area(regions[<<1>>]) > 0
    /\ Area(regions[<<2>>]) > 0

\* The pack calls made for the frames of texture t.
Attempts(t) ==
    SelectSeq(calls, LAMBDA c : c.op = "pack" /\ c.arg \in Range(textures[t].frames))

\* C17: pack_texture attempts the frames of the texture in frame order, each
\* at most once, as pack calls on the root that directly precede its return;
\* it returns false at the first frame that fails, the later frames are never
\* attempted and the frames placed before stay placed; it returns true only
\* if every frame was placed.
C17_PackTextureStopsAtFirstFailure ==
    \A n \in DOMAIN calls :
        calls[n].op = "pack_texture" =>
            LET t      == calls[n].arg
                frames == textures[t].frames
                att    == Attempts(t)
            IN  /\ Len(att) <= Len(frames)
                /\ Len(att) < n
                /\ SubSeq(calls, n - Len(att), n - 1) = att
                /\ \A j \in DOMAIN att :
                      /\ att[j].arg = frames[j]
                      /\ j < Len(att) => att[j].ret
                      /\ att[j].ret => Placed(frames[j])
                /\ calls[n].ret <=>
                      (Len(att) = Len(frames) /\ \A j \in DOMAIN att : att[j].ret)
                /\ ~calls[n].ret => ~att[Len(att)].ret
                /\ \A j \in (Len(att) + 1)..Len(frames) :
                      /\ frames[j] \notin Occupants
                      /\ rects[frames[j]].x = 0
                      /\ rects[frames[j]].y = 0

\* pack_texture returned false at the second of three frames: the first stays
\* placed, the third, for which the root's tree has room, was never attempted.
C17_Witness ==
    /\ Len(calls) = 3
    /\ calls[3] = PackTextureCall(1, FALSE)
    /\ Len(textures[1].frames) = 3
    /\ calls[1] = PackCall(textures[1].frames[1], TRUE)
    /\ calls[2] = PackCall(textures[1].frames[2], FALSE)
    /\ Placed(textures[1].frames[1])
    /\ pack([regions |-> regions, rects |-> rects], Root, textures[1].frames[3]).ret

\* Region a comes before region b in depth-first, left-then-right order:
\* where their paths part, a is under subregion_1 and b under subregion_2.
LeftOf(a, b) ==
    \E n \in 1..Len(a) :
        /\ n <= Len(b)
        /\ SubSeq(a, 1, n - 1) = SubSeq(b, 1, n - 1)
        /\ a[n] = 1
        /\ b[n] = 2

\* C20: get_free_regions on any region returns exactly the free leaves of its
\* subtree, each once, those under subregion_1 before those under
\* subregion_2 at every level.
C20_FreeRegionsInOrder ==
    \A p \in DOMAIN regions :
        LET free == get_free_regions(regions, p)
        IN  /\ Range(free) = Subtree(p) \cap FreeLeaves
            /\ \A k, l \in DOMAIN free : k < l => LeftOf(free[k], free[l])

\* Both children of the root are occupied: four free leaves, two under each.
C20_Witness ==
    /\ {<<1, 1>>, <<2, 1>>} \subseteq DOMAIN regions
    /\ regions[<<1>>].packable # None
    /\ regions[<<2>>].packable # None
    /\ Len(get_free_regions(regions, Root)) = 4
    /\ get_free_regions(regions, <<2>>) = <<(<<2, 1>>), (<<2, 2>>)>>

OccupiedNodes == DOMAIN regions \ FreeLeaves

\* The region whose subregion p is.
Parent(p) == SubSeq(p, 1, Len(p) - 1)

\* C21: in every reachable state of an atlas tree every node is either free
\* with no children or occupied with exactly two children (and every node but
\* the root is one of the two children of an occupied node); the number of
\* free leaves is the number of placed rects plus one; hence get_free_regions
\* on the root is never empty and the free region of maximum perimeter that
\* the growth loop takes after a failed pack_texture call exists.
C21_TreeShape ==
    /\ Root \in DOMAIN regions
    /\ \A p \in DOMAIN regions :
          /\ p # Root => (p[Len(p)] \in {1, 2} /\ Parent(p) \in OccupiedNodes)
          /\ IF regions[p].packable = None
             THEN {subregion_1(p), subregion_2(p)} \cap DOMAIN regions = {}
             ELSE {subregion_1(p), subregion_2(p)} \subseteq DOMAIN regions
    /\ Cardinality(OccupiedNodes) = Cardinality(PackedRects)
    /\ Cardinality(Occupants) = Cardinality(PackedRects)
    /\ Cardinality(FreeLeaves) = Cardinality(PackedRects) + 1
    /\ get_free_regions(regions, Root) # <<>>
    /\ LET biggest_free_space == MaxByPerimeter(regions, get_free_regions(regions, Root))
       IN  /\ biggest_free_space \in FreeLeaves
           /\ \A q \in FreeLeaves :
                 perimeter(regions[q]) <= perimeter(regions[biggest_free_space])

\* A pack_texture call has just failed on a tree with two placed rects, one of
\* which fills its region exactly; the free leaves of largest perimeter are two.
C21_Witness ==
    /\ calls # <<>>
    /\ calls[Len(calls)].op = "pack_texture"
    /\ ~calls[Len(calls)].ret
    /\ Cardinality(PackedRects) = 2
    /\ Cardinality(FreeLeaves) = 3
    /\ \E p \in OccupiedNodes :
          /\ rects[regions[p].packable].width = regions[p].width
          /\ rects[regions[p].packable].height = regions[p].height
    /\ Cardinality({q \in FreeLeaves :
                       \A o \in FreeLeaves : perimeter(regions[o]) <= perimeter(regions[q])}) = 2

---------------------------------------------------------------------------
(* Reading a binary map back *)

\* Four bytes at a byte offset of the file, least significant first.
ReadU32(b, off) ==
    b[off + 1] + 256 * b[off + 2] + 65536 * b[off + 3] + 16777216 * b[off + 4]

\* The n bytes at a byte offset of the file (nothing, past the end of the file).
Slice(b, off, n) == IF off + n <= Len(b) THEN SubSeq(b, off + 1, off + n) ELSE <<>>

IsBinary == pc = "done" /\ mapfile.format = "binary"

IsJson == pc = "done" /\ mapfile.format = "json"

DeclaredTexOff == ReadU32(mapfile.bytes, 16)
DeclaredTexLen == ReadU32(mapfile.bytes, 20)
DeclaredStrOff == ReadU32(mapfile.bytes, 24)
DeclaredStrLen == ReadU32(mapfile.bytes, 28)
DeclaredFrmOff == ReadU32(mapfile.bytes, 32)
DeclaredFrmLen == ReadU32(mapfile.bytes, 36)

\* Texture record k (from 1) as a reader finds it through the header.
ReadTextureRecord(k) ==
    LET at == DeclaredTexOff + (k - 1) * 12
    IN  [name_offset  |-> ReadU32(mapfile.bytes, at),
         frame_count  |-> ReadU32(mapfile.bytes, at + 4),
         frame_offset |-> ReadU32(mapfile.bytes, at + 8)]

Exited == pc \in {"exited", "done"}

---------------------------------------------------------------------------
(* Claims settled under Spec and FairSpec *)

\* C1 (Growth termination): for every command line of textures whose frames
\* have positive sizes, the growth loop eventually exits, and at exit every
\* frame of every texture is placed in the final atlas.
C1_GrowthTerminates ==
    <>(Exited /\ \A t \in DOMAIN textures : AllPlaced(t))

\* C1, the runs that MaxDim cuts short: the model stops following the growth
\* only after a failure of a frame that is not its texture's first frame, the
\* frame whose size main grows the canvas by.
C1_CutShortOnlyAfterLaterFrameFailed ==
    (pc = "failed" /\ ~ENABLED Grow) =>
        /\ calls[Len(calls) - 1] = PackCall(calls[Len(calls) - 1].arg, FALSE)
        /\ calls[Len(calls) - 1].arg \in Range(textures[sorted[i]].frames)
        /\ calls[Len(calls) - 1].arg # textures[sorted[i]].frames[1]

\* C5 (Binary map section layout): the header declares texture-section offset
\* 40, and every declared section offset and size is the position and the
\* length of that section in the file as written.
C5_SectionLayout ==
    IsBinary =>
        /\ DeclaredTexOff = 40
        /\ DeclaredTexOff = mapfile.tell[1]
        /\ DeclaredTexLen = mapfile.tell[2] - mapfile.tell[1]
        /\ DeclaredStrOff = mapfile.tell[2]
        /\ DeclaredStrLen = mapfile.tell[3] - mapfile.tell[2]
        /\ DeclaredFrmOff = mapfile.tell[3]
        /\ DeclaredFrmLen = mapfile.tell[4] - mapfile.tell[3]
        /\ mapfile.tell[4] = Len(mapfile.bytes)

\* C6 (Binary map round-trip offsets): through the header and texture record
\* i a reader finds texture i's name, UTF-8 encoded and null-terminated, its
\* frame count, and the (x, y, width, height) of each of its frames.
C6_RoundTripOffsets ==
    IsBinary =>
        \A k \in DOMAIN atlasTextures :
            LET t   == textures[atlasTextures[k]]
                rec == ReadTextureRecord(k)
                nm  == Utf8(t.name) \o <<0>>
            IN  /\ rec.frame_count = Len(t.frames)
                /\ Slice(mapfile.bytes, DeclaredStrOff + rec.name_offset, Len(nm)) = nm
                /\ \A j \in DOMAIN t.frames :
                      LET f  == rects[t.frames[j]]
                          at == DeclaredFrmOff + rec.frame_offset + (j - 1) * 16
                      IN  Slice(mapfile.bytes, at, 16)
                             = U32(f.x) \o U32(f.y) \o U32(f.width) \o U32(f.height)

\* C7 (JSON flip law): every entry [x, json_y, width, height] of the JSON map
\* is the entry of a frame of a texture with that key: x, width and height are
\* the frame's, json_y + frame.height + frame.y = atlas.height, and json_y >= 0.
C7_JsonFlipLaw ==
    IsJson =>
        \A e \in DOMAIN mapfile.dict :
            \E t \in Range(atlasTextures) :
                /\ textures[t].name = mapfile.dict[e][1]
                /\ Len(mapfile.dict[e][2]) = Len(textures[t].frames)
                /\ \A j \in DOMAIN textures[t].frames :
                      LET f     == rects[textures[t].frames[j]]
                          entry == mapfile.dict[e][2][j]
                      IN  /\ entry[1] = f.x
                          /\ entry[3] = f.width
                          /\ entry[4] = f.height
                          /\ entry[2] + f.height + f.y = regions[Root].height
                          /\ entry[2] >= 0

\* A JSON map with an entry flipped to the bottom (json_y = 0, frame.y > 0)
\* and an entry above it (json_y > 0).
C7_Witness ==
    /\ IsJson
    /\ \E e \in DOMAIN mapfile.dict : \E j \in DOMAIN mapfile.dict[e][2] :
          mapfile.dict[e][2][j][2] = 0 /\ mapfile.dict[e][2][j][4] < regions[Root].height
    /\ \E e \in DOMAIN mapfile.dict : \E j \in DOMAIN mapfile.dict[e][2] :
          mapfile.dict[e][2][j][2] > 0

\* C9 (Packing order of the result): when the growth loop exits, atlas.textures
\* holds every input texture exactly once, by first-frame perimeter descending,
\* textures of equal perimeter in their command-line order.
C9_PackingOrder ==
    Exited =>
        /\ Len(atlasTextures) = Len(textures)
        /\ Range(atlasTextures) = DOMAIN textures
        /\ \A k, l \in DOMAIN atlasTextures :
              k < l =>
                 \/ SortKey(textures, rects, atlasTextures[k])
                       > SortKey(textures, rects, atlasTextures[l])
                 \/ /\ SortKey(textures, rects, atlasTextures[k])
                          = SortKey(textures, rects, atlasTextures[l])
                    /\ atlasTextures[k] < atlasTextures[l]

\* The loop exits after at least one retry with three textures: the sort moved
\* a later texture to the front and kept two of equal perimeter in input order.
C9_Witness ==
    /\ Exited
    /\ Len(textures) = 3
    /\ atlasTextures = <<3, 1, 2>>
    /\ SortKey(textures, rects, 1) = SortKey(textures, rects, 2)
    /\ rects[textures[1].frames[1]] # rects[textures[2].frames[1]]
    /\ regions[Root].width + regions[Root].height
          > rects[textures[3].frames[1]].width + rects[textures[3].frames[1]].height

\* The names of the atlas's textures, and the last texture carrying a name.
AtlasNames == {textures[t].name : t \in Range(atlasTextures)}

LastWithName(nm) ==
    atlasTextures[CHOOSE k \in DOMAIN atlasTextures :
                     /\ textures[atlasTextures[k]].name = nm
                     /\ \A l \in DOMAIN atlasTextures :
                           textures[atlasTextures[l]].name = nm => l <= k]

CountZeros(b) == Cardinality({k \in DOMAIN b : b[k] = 0})

\* C10 (Duplicate texture names): with n textures in the atlas, the binary map
\* has texture count n, n texture records and n null-terminated names; the
\* JSON map has one key per distinct name, whose value lists the frames of the
\* last texture carrying that name, one 4-element entry per frame (n keys when
\* all names are distinct).
C10_DuplicateNames ==
    /\ IsBinary =>
          /\ ReadU32(mapfile.bytes, 12) = Len(atlasTextures)
          /\ mapfile.tell[2] - mapfile.tell[1] = 12 * Len(atlasTextures)
          /\ CountZeros(SubSeq(mapfile.bytes, mapfile.tell[2] + 1, mapfile.tell[3]))
                = Len(atlasTextures)
    /\ IsJson =>
          /\ {mapfile.dict[e][1] : e \in DOMAIN mapfile.dict} = AtlasNames
          /\ Len(mapfile.dict) = Cardinality(AtlasNames)
          /\ \A e \in DOMAIN mapfile.dict :
                LET t == textures[LastWithName(mapfile.dict[e][1])]
                IN  /\ Len(mapfile.dict[e][2]) = Len(t.frames)
                    /\ \A j \in DOMAIN t.frames :
                          /\ Len(mapfile.dict[e][2][j]) = 4
                          /\ mapfile.dict[e][2][j][1] = rects[t.frames[j]].x
                          /\ mapfile.dict[e][2][j][2]
                                = regions[Root].height - rects[t.frames[j]].y
                                     - rects[t.frames[j]].height
                          /\ mapfile.dict[e][2][j][3] = rects[t.frames[j]].width
                          /\ mapfile.dict[e][2][j][4] = rects[t.frames[j]].height

\* A JSON map of three textures, the first and the last with the same name and
\* frames of different sizes: two keys, the shared one first.
C10_Witness ==
    /\ IsJson
    /\ Len(atlasTextures) = 3
    /\ Len(mapfile.dict) = 2
    /\ textures[atlasTextures[1]].name = textures[atlasTextures[3]].name
    /\ mapfile.dict[1][1] = textures[atlasTextures[3]].name
    /\ rects[textures[atlasTextures[1]].frames[1]].width
          # rects[textures[atlasTextures[3]].frames[1]].width

\* The frame whose pack call failed in the pack_texture call that just
\* returned false: the last pack call of the attempt.
FailingFrame == calls[Len(calls) - 1].arg

\* C18 (Growth rule): after a pack_texture failure, with R the free leaf of
\* maximum perimeter and F the frame whose pack call failed, the next attempt
\* uses width + F.width and the same height if R.width < F.width, otherwise
\* height + F.height and the same width.
C18_GrowthRule ==
    [][(pc = "failed" /\ pc' = "loop") =>
          LET R == regions[MaxByPerimeter(regions, get_free_regions(regions, Root))]
              F == rects[FailingFrame]
          IN  IF R.width < F.width
              THEN width' = width + F.width /\ height' = height
              ELSE height' = height + F.height /\ width' = width]_vars

\* The texture the sort puts first: the first, in command-line order, of those
\* whose first frame has the largest perimeter.
FirstSorted ==
    CHOOSE t \in DOMAIN textures :
        /\ \A u \in DOMAIN textures :
              SortKey(textures, rects, u) <= SortKey(textures, rects, t)
        /\ \A u \in 1..(t - 1) :
              SortKey(textures, rects, u) < SortKey(textures, rects, t)

\* C19 (Monotone growth with fresh attempts): the first attempt uses the width
\* and height of the first sorted texture's first frame; every retry makes
\* exactly one of width and height larger and leaves the other unchanged;
\* every attempt starts from a new atlas, a single free root of the current
\* size with an empty textures list, and packs the sorted textures from the
\* first one, in order.
C19_MonotoneFreshAttempts ==
    [][/\ pc = "parsed" =>
             /\ sorted'[1] = FirstSorted
             /\ width' = rects[textures[FirstSorted].frames[1]].width
             /\ height' = rects[textures[FirstSorted].frames[1]].height
       /\ pc = "failed" =>
             /\ \/ width' > width /\ height' = height
                \/ width' = width /\ height' > height
             /\ sorted' = sorted
       /\ pc \in {"parsed", "failed"} =>
             /\ pc' = "loop"
             /\ DOMAIN regions' = {Root}
             /\ regions'[Root] = [x |-> 0, y |-> 0, width |-> width', height |-> height',
                                  packable |-> None]
             /\ atlasTextures' = <<>>
             /\ i' = 1
       /\ pc = "loop" =>
             /\ atlasTextures = SubSeq(sorted, 1, i - 1)
             /\ atlasTextures' = Append(atlasTextures, sorted[i])
             /\ regions'[Root].width = width
             /\ regions'[Root].height = height]_vars

\* A third or later attempt is about to start: the canvas is both wider and
\* higher than the first one, the new atlas is empty, and a frame still has
\* the position an abandoned attempt gave it.
C19_Witness ==
    /\ pc = "loop"
    /\ i = 1
    /\ atlasTextures = <<>>
    /\ regions[Root].packable = None
    /\ width > rects[textures[sorted[1]].frames[1]].width
    /\ height > rects[textures[sorted[1]].frames[1]].height
    /\ \E r \in DOMAIN rects : rects[r].x > 0 \/ rects[r].y > 0

\* C21, in the growth loop: whenever a pack_texture call of main has failed,
\* the atlas tree has the shape above, so the max over its free regions exists.
C21_GrowthChoiceDefined ==
    pc = "failed" => C21_TreeShape

\* The regions of the current atlas's tree that the Rect object r occupies.
NodesOf(r) == {p \in DOMAIN regions : regions[p].packable = r}

\* C22: the frame objects are shared by all attempts and pack overwrites their
\* positions, yet when the loop exits every frame of every texture occupies
\* exactly one node of the final atlas's tree and its (x, y) is that node's
\* origin: no frame keeps a position from an abandoned attempt.
C22_NoStalePositions ==
    Exited =>
        \A t \in DOMAIN textures : \A r \in Range(textures[t].frames) :
            /\ Cardinality(NodesOf(r)) = 1
            /\ \A p \in NodesOf(r) :
                  /\ rects[r].x = regions[p].x
                  /\ rects[r].y = regions[p].y

\* The loop exits after at least two abandoned attempts (the canvas is wider
\* and higher than the first one) with three frames, one of them a later
\* frame of its texture, placed away from the origin.
C22_Witness ==
    /\ Exited
    /\ Len(rects) = 3
    /\ \E t \in DOMAIN textures : Len(textures[t].frames) >= 2
    /\ regions[Root].width > rects[textures[sorted[1]].frames[1]].width
    /\ regions[Root].height > rects[textures[sorted[1]].frames[1]].height
    /\ Cardinality({r \in DOMAIN rects : rects[r].x > 0 \/ rects[r].y > 0}) = 2

---------------------------------------------------------------------------
(* Claims settled under TwoRunSpec *)

---------------------------------------------------------------------------
(* Claims settled under FixedSpec *)

\* The frames of the sorted textures, texture by texture, in frame order.
FramesInOrder == Concat([k \in DOMAIN sorted |-> textures[sorted[k]].frames])

PackCalls == SelectSeq(calls, LAMBDA c : c.op = "pack")

\* C12 (Fixed-size mode): the frames are attempted once each in sorted texture
\* order, then frame order; the program raises at the first frame that
\* PackRegion.pack cannot place and attempts nothing after it; the canvas
\* stays size x size and nothing follows the error; if no frame fails, every
\* frame of every texture is placed.
C12_FixedSizeFatal ==
    /\ [](pc # "fixed_parsed" =>
            /\ regions[Root].width = width
            /\ regions[Root].height = height
            /\ Len(PackCalls) <= Len(FramesInOrder)
            /\ \A k \in DOMAIN PackCalls :
                  /\ PackCalls[k].arg = FramesInOrder[k]
                  /\ k < Len(PackCalls) => PackCalls[k].ret
            /\ pc = "raised" <=> (PackCalls # <<>> /\ ~PackCalls[Len(PackCalls)].ret)
            /\ pc = "raised" =>
                  ~pack([regions |-> regions, rects |-> rects], Root,
                        PackCalls[Len(PackCalls)].arg).ret
            /\ pc = "exited" =>
                  /\ Len(PackCalls) = Len(FramesInOrder)
                  /\ \A t \in DOMAIN textures : AllPlaced(t))
    /\ [][/\ pc # "raised"
          /\ width' = width
          /\ height' = height
          /\ width = height]_vars

\* The error is raised at the second of three frames: the first is placed,
\* the third, which would fit, was never attempted.
C12_Witness ==
    /\ pc = "raised"
    /\ Len(FramesInOrder) = 3
    /\ Len(PackCalls) = 2
    /\ Placed(FramesInOrder[1])
    /\ pack([regions |-> regions, rects |-> rects], Root, FramesInOrder[3]).ret

---------------------------------------------------------------------------
(* Claims settled under SizeBoundSpec *)

Max(S) == CHOOSE x \in S : \A y \in S : y <= x

\* The canvas of the first attempt: the first sorted texture's first frame.
InitialFrame == rects[textures[sorted[1]].frames[1]]

\* C13 (Canvas size bound): whenever the growth loop exits, the atlas width is
\* at least the largest frame width and at most the initial width plus the
\* sum of the widths of all frames, and likewise for the height.
C13_CanvasSizeBound ==
    Exited =>
        /\ regions[Root].width >= Max({rects[r].width : r \in DOMAIN rects})
        /\ regions[Root].width
              <= InitialFrame.width + Sum([r \in DOMAIN rects |-> rects[r].width])
        /\ regions[Root].height >= Max({rects[r].height : r \in DOMAIN rects})
        /\ regions[Root].height
              <= InitialFrame.height + Sum([r \in DOMAIN rects |-> rects[r].height])

===========================================================================
